---- MODULE Spec2Model ----
(***************************************************************************)
(* Video assembly pipeline of pres_gen_new: the Celery task                *)
(* create_video_task (celery_worker.py) running                            *)
(* process_video_with_presentation (video_processor.py) for several jobs   *)
(* that share one filesystem.                                              *)
(*                                                                         *)
(* Every job is a sequential process; one action is one external call      *)
(* (a subprocess, a file write, a file removal) or one handler step.       *)
(* `os.path.exists(p)` followed by `os.remove(p)` is one step: a removal   *)
(* that loses the race against another job's removal raises OSError, which *)
(* both cleanup loops swallow, and leaves the same filesystem as a skipped *)
(* removal.                                                                *)
(*                                                                         *)
(* Spec is one worker running one job; SpecConc is one worker per job, all *)
(* at once; SpecFault is Spec on a filesystem whose os.remove may raise    *)
(* OSError for a file that exists.                                         *)
(***************************************************************************)
EXTENDS Integers, Sequences, FiniteSets, TLC

\* ---------------------------------------------------------------- bounds
NumJobs == 2
MaxSegs == 2
MaxTime == 1
MaxIndex == 101
MaxDownloads == 2
MaxFaults == 2

Jobs == 1..NumJobs

\* ---------------------------------------------------------------- paths
\* A path is <<directory, name prefix, digits, suffix>>.
UPLOADS_DIR == "uploads"
CWD == "."

RECURSIVE Digits(_)
\* str(n) for n >= 0, as the sequence of its decimal digits.
Digits(n) == IF n < 10 THEN <<n>> ELSE Append(Digits(n \div 10), n % 10)

\* Mutant of Fmt02: exactly two digits, the hundreds dropped.
Fmt02Fixed(n) == <<(n \div 10) % 10, n % 10>>

\* The format spec `:02d`: at least two digits, zero padded.
Fmt02(n) == IF n < 10 THEN <<0, n>> ELSE Digits(n)

\* os.path.dirname / os.path.join on the modelled paths.
Dirname(p) == p[1]

\* main.py: f"{task_id}_{filename}" under UPLOADS_DIR, task_id a fresh uuid4.
JsonPath(j) == <<UPLOADS_DIR, "json_", Digits(j), ".json">>
PresPath(j) == <<UPLOADS_DIR, "pres_", Digits(j), ".pdf">>
VideoPath(j) == <<UPLOADS_DIR, "video_", Digits(j), ".mp4">>

\* celery_worker.py: f"processed_video_{self.request.id}.mp4" under UPLOADS_DIR.
OutputPath(j) == <<UPLOADS_DIR, "processed_video_", Digits(j), ".mp4">>

\* temp_folder = os.path.dirname(output_path)
TempFolder(j) == Dirname(OutputPath(j))

\* convert_pdf_to_images: f'slide_{i+1:02d}.png'
SlideImage(folder, i) == <<folder, "slide_", Fmt02(i + 1), ".png">>
\* process_video_with_presentation: the four per-segment outputs.
SpeakerCut(folder, i) == <<folder, "speaker_", Fmt02(i), ".mp4">>
SlideVid(folder, i) == <<folder, "slide_", Fmt02(i), ".mp4">>
SpeakerResized(folder, i) == <<folder, "speaker_", Fmt02(i), "_resized.mp4">>
Combined(folder, i) == <<folder, "combined_", Fmt02(i), ".mp4">>

\* concat_videos / the finally block: the relative path 'inputs.txt'.
ManifestPath == <<CWD, "inputs", <<>>, ".txt">>

SourcePaths(j) == {JsonPath(j), PresPath(j), VideoPath(j)}

IntermediatePathsOf(j) ==
    UNION {{SlideImage(TempFolder(j), i), SpeakerCut(TempFolder(j), i),
            SlideVid(TempFolder(j), i), SpeakerResized(TempFolder(j), i),
            Combined(TempFolder(j), i)} : i \in 0..(MaxSegs - 1)}

IntermediatePaths == UNION {IntermediatePathsOf(j) : j \in Jobs}

AllPaths ==
    IntermediatePaths \cup {ManifestPath}
        \cup UNION {SourcePaths(j) \cup {OutputPath(j)} : j \in Jobs}

Range(s) == {s[k] : k \in 1..Len(s)}

\* ---------------------------------------------------------------- state
VARIABLES
    nSegs,             \* nSegs[j]: len(data["slides"]) of job j's timeline
    nPages,            \* nPages[j]: len(reader.pages) of job j's document
    pc,                \* pc[j]: the statement job j executes next
    idx,               \* idx[j]: the running loop index of job j
    fs,                \* fs[p]: 0 if no file is at p, else the job that wrote it
    manifest,          \* the lines of inputs.txt, as the list of paths written
    slide_image_paths, \* per job: the list convert_pdf_to_images builds
    video_fragments,   \* per job
    cycle_temp_files,  \* per job
    dirMade,           \* per job: os.makedirs(temp_folder) was called
    calls,             \* per job: the external operations completed, in order
    err,               \* per job: the exception in flight
    status,            \* per job: the Celery task state
    slides_data_list,  \* per job: data["slides"], the segments' start and end
    responses,         \* per job: the answers of download_video so far
    planned            \* the artifact paths derived for a pair of segments

vars == <<nSegs, nPages, pc, idx, fs, manifest, slide_image_paths,
          video_fragments, cycle_temp_files, dirMade, calls, err, status,
          slides_data_list, responses, planned>>

\* What the task itself never touches.
aux == <<responses, planned>>

NoError == [type |-> "none", op |-> "none", seg |-> 0]
ValueError == [type |-> "ValueError", op |-> "validate", seg |-> 0]
OpError(op, i) == [type |-> "OperationError", op |-> op, seg |-> i]

\* The arguments of an external operation: input paths, numbers, output path.
Args(ins, t, out) == [ins |-> ins, t |-> t, out |-> out]

Call(op, i, ok, args) == [op |-> op, seg |-> i, ok |-> ok, args |-> args]

\* The segments a timeline may hold: the code accepts any start and end.
SegmentTimes == {[start |-> s, end |-> e] : s \in 0..MaxTime, e \in 0..MaxTime}
\* One well-formed segment, for the runs where the times play no part.
FixedTimes == {[start |-> 0, end |-> 1]}

Exists(f, p) == f[p] # 0

Init ==
    /\ nSegs = [j \in Jobs |-> 0]
    /\ nPages = [j \in Jobs |-> 0]
    /\ pc = [j \in Jobs |-> "queued"]
    /\ idx = [j \in Jobs |-> 0]
    \* generate_video_endpoint saved the three uploads before task.delay().
    /\ fs = [p \in AllPaths |->
               IF \E j \in Jobs : p \in SourcePaths(j)
                 THEN CHOOSE j \in Jobs : p \in SourcePaths(j)
                 ELSE 0]
    /\ manifest = <<>>
    /\ slide_image_paths = [j \in Jobs |-> <<>>]
    /\ video_fragments = [j \in Jobs |-> <<>>]
    /\ cycle_temp_files = [j \in Jobs |-> <<>>]
    /\ dirMade = [j \in Jobs |-> FALSE]
    /\ calls = [j \in Jobs |-> <<>>]
    /\ err = [j \in Jobs |-> NoError]
    /\ status = [j \in Jobs |-> "PENDING"]
    /\ slides_data_list = [j \in Jobs |-> <<>>]
    /\ responses = [j \in Jobs |-> <<>>]
    /\ planned = {}


\* ---------------------------------------------------------------- helpers
Set(f, j, v) == [f EXCEPT ![j] = v]

\* `if os.path.exists(path): os.remove(path)`, the removal succeeding.
RemoveIfExists(f, p) == [f EXCEPT ![p] = 0]

RECURSIVE RemoveEach(_, _, _)
\* cleanup_files(paths): the loop over the list, in order. The removals of
\* the paths in `stuck` raise OSError, which the loop prints and passes over.
RemoveEach(f, paths, stuck) ==
    IF paths = <<>> THEN f
    ELSE RemoveEach(IF Head(paths) \in stuck
                      THEN f
                      ELSE RemoveIfExists(f, Head(paths)),
                    Tail(paths), stuck)

cleanup_files(f, paths, stuck) == RemoveEach(f, paths, stuck)

\* The sets of existing files of `paths` whose removal may raise.
MayStick(f, paths) == {S \in SUBSET Range(paths) : S # {} /\ \A p \in S : Exists(f, p)}

\* The text of inputs.txt falls away with the file.
ManifestAfter(f, m) == IF Exists(f, ManifestPath) THEN m ELSE <<>>

\* Mutant of TempFilesToClean: the output path left out of the error cleanup.
TempFilesSourcesOnly(j) == <<JsonPath(j), PresPath(j), VideoPath(j)>>

\* create_video_task: temp_files_to_clean
TempFilesToClean(j) == <<JsonPath(j), PresPath(j), VideoPath(j), OutputPath(j)>>
\* create_video_task: the list of the finally block
SourceFiles(j) == <<JsonPath(j), PresPath(j), VideoPath(j)>>

\* Mutant of CountsMatch: a document with spare pages passes.
CountsMatchAtMost(n, p) == n <= p

\* `len(slides_data_list) != len(reader.pages)` is what raises.
CountsMatch(n, p) == n = p

\* Mutant of Track: the append forgotten.
TrackNothing(list, path) == list

\* Mutant of Track: the path is put at the front of the list.
TrackFirst(list, path) == <<path>> \o list

\* cycle_temp_files.append(path) / video_fragments.append(path)
Track(list, path) == Append(list, path)

\* `for i, slide_data in enumerate(slides_data_list)`: where control goes when
\* the loop reaches index i.
LoopPc(j, i) == IF i < nSegs[j] THEN "cut_video" ELSE "concat_write"

\* Mutant of RaisedInTry: no finally block, the exception leaves at once.
RaisedSkipsFinally == "task_except"
\* Mutant of RaisedInTry: the failed segment is started again.
RaisedRetries == "cut_video"

\* Where an exception raised inside the try block of
\* process_video_with_presentation goes: its finally block.
RaisedInTry == "finally"
\* Where an exception raised before the try block goes: the except clause of
\* create_video_task.
RaisedBeforeTry == "task_except"

\* Where control goes when the finally block of
\* process_video_with_presentation ends.
AfterFinally(j) == IF err[j] = NoError THEN "task_return" ELSE "task_except"

\* ---------------------------------------------------------------- the task
\* create_video_task up to the call of process_video_with_presentation.
TaskStart(j) ==
    /\ pc[j] = "queued"
    /\ pc' = Set(pc, j, "validate")
    /\ status' = Set(status, j, "PROGRESS")
    /\ UNCHANGED <<nSegs, nPages, idx, fs, manifest, slide_image_paths,
                   video_fragments, cycle_temp_files, dirMade, calls, err,
                   slides_data_list, aux>>

\* process_video_with_presentation, lines 146-155: load the timeline (n
\* segments with times from T) and the document (p pages), compare the counts.
Validate(j, T) ==
    /\ pc[j] = "validate"
    /\ \E n \in 0..MaxSegs, p \in 0..MaxSegs :
       \E data \in [1..n -> T] :
        /\ nSegs' = Set(nSegs, j, n)
        /\ slides_data_list' = Set(slides_data_list, j, data)
        /\ nPages' = Set(nPages, j, p)
        /\ IF CountsMatch(n, p)
             THEN /\ pc' = Set(pc, j, "makedirs")
                  /\ err' = err
             ELSE /\ pc' = Set(pc, j, RaisedBeforeTry)
                  /\ err' = Set(err, j, ValueError)
    /\ UNCHANGED <<idx, fs, manifest, slide_image_paths,
                   video_fragments, cycle_temp_files, dirMade, calls, status,
                   aux>>

\* os.makedirs(temp_folder, exist_ok=True)
Makedirs(j) ==
    /\ pc[j] = "makedirs"
    /\ dirMade' = Set(dirMade, j, TRUE)
    /\ pc' = Set(pc, j, "rasterize")
    /\ UNCHANGED <<nSegs, nPages, idx, fs, manifest, slide_image_paths,
                   video_fragments, cycle_temp_files, calls, err, status,
                   slides_data_list, aux>>

\* convert_pdf_to_images(presentation_path, output_folder=temp_folder)
RasterArgs(j) == Args(<<PresPath(j)>>, <<>>, <<>>)

\* Mutant of TempFilesOf: the document is put on the list with its pages.
TempFilesWithDocument(j, images) == <<PresPath(j)>> \o images

\* cycle_temp_files = list(slide_image_paths)
TempFilesOf(j, images) == images

\* The state after convert_pdf_to_images returned `images`:
\* video_fragments = [], cycle_temp_files = list(slide_image_paths), loop entry.
EnterLoop(j, images) ==
    /\ slide_image_paths' = Set(slide_image_paths, j, images)
    /\ video_fragments' = Set(video_fragments, j, <<>>)
    /\ cycle_temp_files' = Set(cycle_temp_files, j, TempFilesOf(j, images))
    /\ calls' = Set(calls, j, Append(calls[j], Call("rasterize", 0, TRUE, RasterArgs(j))))
    /\ idx' = Set(idx, j, 0)
    /\ pc' = Set(pc, j, LoopPc(j, 0))
    /\ err' = err

\* convert_pdf_to_images raised at page i: nothing of the caller's try block
\* has been entered.
RasterizeRaises(j, i) ==
    /\ calls' = Set(calls, j, Append(calls[j], Call("rasterize", 0, FALSE, RasterArgs(j))))
    /\ err' = Set(err, j, OpError("rasterize", i))
    /\ pc' = Set(pc, j, RaisedBeforeTry)
    /\ UNCHANGED <<idx, slide_image_paths, video_fragments, cycle_temp_files>>

\* convert_pdf_to_images: slides = convert_from_path(pdf_path)
Rasterize(j) ==
    /\ pc[j] = "rasterize"
    /\ \E ok \in BOOLEAN :
        /\ ok => Exists(fs, PresPath(j))
        /\ IF ok
             THEN IF nPages[j] = 0
                    THEN EnterLoop(j, <<>>)
                    ELSE /\ pc' = Set(pc, j, "save")
                         /\ idx' = Set(idx, j, 0)
                         /\ slide_image_paths' = Set(slide_image_paths, j, <<>>)
                         /\ UNCHANGED <<video_fragments, cycle_temp_files,
                                        calls, err>>
             ELSE RasterizeRaises(j, 0)
    /\ UNCHANGED <<nSegs, nPages, fs, manifest, dirMade, status,
                   slides_data_list, aux>>

\* convert_pdf_to_images: one round of the loop, slide.save(image_path, 'PNG').
SavePage(j) ==
    /\ pc[j] = "save"
    /\ idx[j] < nPages[j]
    /\ LET image_path == SlideImage(TempFolder(j), idx[j]) IN
       \E ok \in BOOLEAN, wrote \in BOOLEAN :
        /\ ok => wrote
        /\ fs' = IF wrote THEN [fs EXCEPT ![image_path] = j] ELSE fs
        /\ IF ok
             THEN IF idx[j] + 1 = nPages[j]
                    THEN EnterLoop(j, Append(slide_image_paths[j], image_path))
                    ELSE /\ slide_image_paths' =
                               Set(slide_image_paths, j,
                                   Append(slide_image_paths[j], image_path))
                         /\ idx' = Set(idx, j, idx[j] + 1)
                         /\ UNCHANGED <<pc, video_fragments, cycle_temp_files,
                                        calls, err>>
             ELSE RasterizeRaises(j, idx[j])
    /\ UNCHANGED <<nSegs, nPages, manifest, dirMade, status,
                   slides_data_list, aux>>

\* ---------------------------------------------------------------- segments
\* Mutant of NextStage: the resize issued before the slide render.
NextStageSwapped(stage) ==
    CASE stage = "cut_video" -> "resize_video"
      [] stage = "resize_video" -> "slide_to_video"
      [] stage = "slide_to_video" -> "combine_videos"

\* The order of the statements in the loop body.
NextStage(stage) ==
    CASE stage = "cut_video" -> "slide_to_video"
      [] stage = "slide_to_video" -> "resize_video"
      [] stage = "resize_video" -> "combine_videos"

\* subprocess.run(cmd, check=True) of one ffmpeg stage of segment idx[j]: it
\* returns, having written `out` from the files `ins`, or raises
\* CalledProcessError, `out` written in part or not at all. A stage whose
\* input is missing fails. `t` are the numbers on its command line.
RunStage(j, op, ins, t, out) ==
    \E ok \in BOOLEAN, wrote \in BOOLEAN :
        /\ ok => wrote /\ \A p \in Range(ins) : Exists(fs, p)
        /\ fs' = IF wrote THEN [fs EXCEPT ![out] = j] ELSE fs
        /\ calls' = Set(calls, j,
                        Append(calls[j], Call(op, idx[j], ok, Args(ins, t, out))))
        /\ IF ok
             THEN /\ cycle_temp_files' =
                        Set(cycle_temp_files, j, Track(cycle_temp_files[j], out))
                  /\ err' = err
                  /\ IF op = "combine_videos"
                       THEN /\ video_fragments' =
                                  Set(video_fragments, j,
                                      Track(video_fragments[j], out))
                            /\ idx' = Set(idx, j, idx[j] + 1)
                            /\ pc' = Set(pc, j, LoopPc(j, idx[j] + 1))
                       ELSE /\ pc' = Set(pc, j, NextStage(op))
                            /\ UNCHANGED <<video_fragments, idx>>
             ELSE /\ err' = Set(err, j, OpError(op, idx[j]))
                  /\ pc' = Set(pc, j, RaisedInTry)
                  /\ UNCHANGED <<cycle_temp_files, video_fragments, idx>>
        /\ UNCHANGED <<nSegs, nPages, manifest, slide_image_paths, dirMade,
                       status, slides_data_list, aux>>

\* Mutant of ListItem: every segment is given the first element.
ListItemFirst(list, i) == list[1]

\* list[i] of a Python list, i counted from 0.
ListItem(list, i) == list[i + 1]

\* start = slide_data['start']; end = slide_data['end']; duration = end - start
Start(j) == ListItem(slides_data_list[j], idx[j]).start
End(j) == ListItem(slides_data_list[j], idx[j]).end
Duration(j) == End(j) - Start(j)

\* cut_video(video_path, start, end, speaker_cut), of the segment the loop
\* has reached.
cut_video(j) ==
    /\ pc[j] = "cut_video"
    /\ idx[j] < Len(slides_data_list[j])
    /\ RunStage(j, "cut_video", <<VideoPath(j)>>, <<Start(j), End(j)>>,
                SpeakerCut(TempFolder(j), idx[j]))

\* slide_to_video(slide_img_path, duration, slide_vid),
\* slide_img_path = slide_image_paths[i]
slide_to_video(j) ==
    /\ pc[j] = "slide_to_video"
    /\ RunStage(j, "slide_to_video",
                <<ListItem(slide_image_paths[j], idx[j])>>, <<Duration(j)>>,
                SlideVid(TempFolder(j), idx[j]))

\* resize_video(speaker_cut, speaker_resized)
resize_video(j) ==
    /\ pc[j] = "resize_video"
    /\ RunStage(j, "resize_video", <<SpeakerCut(TempFolder(j), idx[j])>>, <<>>,
                SpeakerResized(TempFolder(j), idx[j]))

\* combine_videos(slide_vid, speaker_resized, combined)
combine_videos(j) ==
    /\ pc[j] = "combine_videos"
    /\ RunStage(j, "combine_videos",
                <<SlideVid(TempFolder(j), idx[j]),
                  SpeakerResized(TempFolder(j), idx[j])>>, <<>>,
                Combined(TempFolder(j), idx[j]))

\* ---------------------------------------------------------------- concat
\* Mutant of ManifestLines: the list written back to front.
ManifestReversed(video_list) ==
    [k \in 1..Len(video_list) |-> video_list[Len(video_list) + 1 - k]]

\* The lines concat_videos writes for video_list, in order.
ManifestLines(video_list) == video_list

\* concat_videos: `with open('inputs.txt', 'w')` and the writes.
concat_write(j) ==
    /\ pc[j] = "concat_write"
    /\ fs' = [fs EXCEPT ![ManifestPath] = j]
    /\ manifest' = ManifestLines(video_fragments[j])
    /\ pc' = Set(pc, j, "concat_run")
    /\ UNCHANGED <<nSegs, nPages, idx, slide_image_paths, video_fragments,
                   cycle_temp_files, dirMade, calls, err, status,
                   slides_data_list, aux>>

\* concat_videos: subprocess.run of `ffmpeg -f concat -i inputs.txt`. It reads
\* whatever inputs.txt holds when it runs, and fails when the manifest or a
\* file it lists is missing.
concat_run(j) ==
    /\ pc[j] = "concat_run"
    /\ \E ok \in BOOLEAN, wrote \in BOOLEAN :
        /\ ok => /\ wrote
                 /\ Exists(fs, ManifestPath)
                 /\ \A p \in Range(manifest) : Exists(fs, p)
        /\ fs' = IF wrote THEN [fs EXCEPT ![OutputPath(j)] = j] ELSE fs
        /\ calls' = Set(calls, j,
                        Append(calls[j],
                               Call("concat_videos", 0, ok,
                                    Args(video_fragments[j], <<>>,
                                         OutputPath(j)))))
        /\ err' = IF ok THEN err ELSE Set(err, j, OpError("concat_videos", 0))
        /\ pc' = Set(pc, j, RaisedInTry)
    /\ UNCHANGED <<nSegs, nPages, idx, manifest, slide_image_paths,
                   video_fragments, cycle_temp_files, dirMade, status,
                   slides_data_list, aux>>

\* ---------------------------------------------------------------- finally
\* `if os.path.exists(inputs_txt_path): cycle_temp_files.append(inputs_txt_path)`
WithManifest(f, list) ==
    IF Exists(f, ManifestPath) THEN Track(list, ManifestPath) ELSE list

\* The finally block of process_video_with_presentation up to its loop.
finally(j) ==
    /\ pc[j] = "finally"
    /\ LET list == WithManifest(fs, cycle_temp_files[j]) IN
        /\ cycle_temp_files' = Set(cycle_temp_files, j, list)
        /\ IF list = <<>>
             THEN /\ pc' = Set(pc, j, AfterFinally(j))
                  /\ idx' = idx
             ELSE /\ pc' = Set(pc, j, "remove")
                  /\ idx' = Set(idx, j, 1)
    /\ UNCHANGED <<nSegs, nPages, fs, manifest, slide_image_paths,
                   video_fragments, dirMade, calls, err, status,
                   slides_data_list, aux>>

\* One round of `for f_path in cycle_temp_files`, leaving the filesystem f
\* and the exception e in flight.
RemoveRound(j, f, e) ==
    /\ fs' = f
    /\ manifest' = ManifestAfter(f, manifest)
    /\ err' = Set(err, j, e)
    /\ IF idx[j] = Len(cycle_temp_files[j])
         THEN /\ pc' = Set(pc, j, AfterFinally(j))
              /\ idx' = idx
         ELSE /\ idx' = Set(idx, j, idx[j] + 1)
              /\ pc' = pc
    /\ UNCHANGED <<nSegs, nPages, slide_image_paths, video_fragments,
                   cycle_temp_files, dirMade, calls, status,
                   slides_data_list, aux>>

\* Mutant of Swallowed: the OSError of the removal replaces what was in flight.
Escapes(e) == OpError("remove", 0)

\* `except OSError as e: logging.warning(...)`: the exception in flight (or
\* none) after the handler is the one before the removal.
Swallowed(e) == e

\* The round whose os.remove succeeds, or whose file is already gone.
remove(j) ==
    /\ pc[j] = "remove"
    /\ idx[j] <= Len(cycle_temp_files[j])
    /\ RemoveRound(j, RemoveIfExists(fs, cycle_temp_files[j][idx[j]]), err[j])

\* The rounds of the loop so far whose os.remove raised: their files stay.
StuckSoFar(j) ==
    {k \in 1..(idx[j] - 1) : Exists(fs, cycle_temp_files[j][k])}

\* The round whose os.remove raises OSError: logged, the file stays. At most
\* MaxFaults rounds of one loop raise.
remove_raises(j) ==
    /\ pc[j] = "remove"
    /\ idx[j] <= Len(cycle_temp_files[j])
    /\ Exists(fs, cycle_temp_files[j][idx[j]])
    /\ Cardinality(StuckSoFar(j)) < MaxFaults
    /\ RemoveRound(j, fs, Swallowed(err[j]))

\* ---------------------------------------------------------------- task end
\* create_video_task: `except Exception`: cleanup_files(temp_files_to_clean),
\* then `raise e`.
TaskExcept(j, stuck) ==
    /\ pc[j] = "task_except"
    /\ fs' = cleanup_files(fs, TempFilesToClean(j), stuck)
    /\ pc' = Set(pc, j, "task_finally")
    /\ UNCHANGED <<nSegs, nPages, idx, manifest, slide_image_paths,
                   video_fragments, cycle_temp_files, dirMade, calls, err,
                   status, slides_data_list, aux>>

task_except(j) == TaskExcept(j, {})

\* The except clause with some removal raising OSError.
task_except_raises(j) ==
    \E stuck \in MayStick(fs, TempFilesToClean(j)) : TaskExcept(j, stuck)

\* create_video_task: the return statement, its value computed.
task_return(j) ==
    /\ pc[j] = "task_return"
    /\ pc' = Set(pc, j, "task_finally")
    /\ UNCHANGED <<nSegs, nPages, idx, fs, manifest, slide_image_paths,
                   video_fragments, cycle_temp_files, dirMade, calls, err,
                   status, slides_data_list, aux>>

\* The state Celery records when the task function ends.
TaskState(e) == IF e = NoError THEN "SUCCESS" ELSE "FAILURE"

\* create_video_task: the finally block, after which the task ends.
TaskFinally(j, stuck) ==
    /\ pc[j] = "task_finally"
    /\ fs' = cleanup_files(fs, SourceFiles(j), stuck)
    /\ status' = Set(status, j, TaskState(err[j]))
    /\ pc' = Set(pc, j, "done")
    /\ UNCHANGED <<nSegs, nPages, idx, manifest, slide_image_paths,
                   video_fragments, cycle_temp_files, dirMade, calls, err,
                   slides_data_list, aux>>

task_finally(j) == TaskFinally(j, {})

\* The finally block with some removal raising OSError.
task_finally_raises(j) ==
    \E stuck \in MayStick(fs, SourceFiles(j)) : TaskFinally(j, stuck)

Step(j, T) ==
    \/ TaskStart(j)
    \/ Validate(j, T)
    \/ Makedirs(j)
    \/ Rasterize(j)
    \/ SavePage(j)
    \/ cut_video(j)
    \/ slide_to_video(j)
    \/ resize_video(j)
    \/ combine_videos(j)
    \/ concat_write(j)
    \/ concat_run(j)
    \/ finally(j)
    \/ remove(j)
    \/ task_except(j)
    \/ task_return(j)
    \/ task_finally(j)

\* One worker process: it takes the first job of the queue and runs it while
\* the other submissions wait.
Solo == {j \in Jobs : \A k \in Jobs : j <= k}

Next == \E j \in Solo : Step(j, SegmentTimes)

Spec == Init /\ [][Next]_vars

\* The one worker on a filesystem whose removals may fail.
Fault(j) ==
    \/ remove_raises(j)
    \/ task_except_raises(j)
    \/ task_finally_raises(j)

NextFault == \E j \in Solo : Step(j, FixedTimes) \/ Fault(j)

SpecFault == Init /\ [][NextFault]_vars

\* One worker process per job, all running at once over the same filesystem.
NextConc == \E j \in Jobs : Step(j, FixedTimes)

SpecConc == Init /\ [][NextConc]_vars

\* ---------------------------------------------------------------- download
\* Mutant of Served: the file is removed once it has been sent (the
\* BackgroundTask of the commented-out return).
ServedOnce(f, p) == RemoveIfExists(f, p)

\* `return FileResponse(path=file_path, ...)`: the filesystem after the answer.
Served(f, p) == f

\* task_result.ready(): the task has ended.
Ready(j) == status[j] \in {"SUCCESS", "FAILURE"}

\* download_video(task_id): 404 unless the task ended in SUCCESS and the file
\* at result_path exists, the file otherwise.
download_video(j) ==
    /\ Len(responses[j]) < MaxDownloads
    /\ LET found == /\ Ready(j)
                    /\ status[j] = "SUCCESS"
                    /\ Exists(fs, OutputPath(j))
       IN  /\ responses' =
                  Set(responses, j,
                      Append(responses[j],
                             [status |-> status[j],
                              exists |-> Exists(fs, OutputPath(j)),
                              answer |-> IF found THEN "file" ELSE "not found"]))
           /\ fs' = IF found THEN Served(fs, OutputPath(j)) ELSE fs
    /\ UNCHANGED <<nSegs, nPages, pc, idx, manifest, slide_image_paths,
                   video_fragments, cycle_temp_files, dirMade, calls, err,
                   status, slides_data_list, planned>>

\* The one worker and the clients asking for the result of its job.
NextWeb == \E j \in Solo : Step(j, FixedTimes) \/ download_video(j)

SpecWeb == Init /\ [][NextWeb]_vars

\* ------------------------------------------------------------ path planning
Kinds == {"image", "speaker_cut", "slide_vid", "speaker_resized", "combined"}

\* The paths the code derives for segment i in temp_folder, by kind.
ArtifactsOf(folder, i) ==
    [x \in Kinds |->
        CASE x = "image" -> SlideImage(folder, i)
          [] x = "speaker_cut" -> SpeakerCut(folder, i)
          [] x = "slide_vid" -> SlideVid(folder, i)
          [] x = "speaker_resized" -> SpeakerResized(folder, i)
          [] x = "combined" -> Combined(folder, i)]

\* The paths of two segments i and k of job j are derived.
PlanPair(j) ==
    /\ planned = {}
    /\ \E i \in 0..MaxIndex, k \in 0..MaxIndex :
           planned' = {[job |-> j, i |-> i, k |-> k,
                        first |-> ArtifactsOf(TempFolder(j), i),
                        second |-> ArtifactsOf(TempFolder(j), k)]}
    /\ UNCHANGED <<nSegs, nPages, pc, idx, fs, manifest, slide_image_paths,
                   video_fragments, cycle_temp_files, dirMade, calls, err,
                   status, slides_data_list, responses>>

NextPlan == \E j \in Jobs : PlanPair(j)

\* The derivation of the paths alone, for segment indices up to MaxIndex.
SpecPlan == Init /\ [][NextPlan]_vars

\* ================================================================ claims
Stages == {"cut_video", "slide_to_video", "resize_video", "combine_videos"}

\* process_video_with_presentation has returned or raised.
Returned(j) == pc[j] \in {"task_return", "task_except", "task_finally", "done"}
Raised(j) == Returned(j) /\ err[j] # NoError

\* The intermediate files and the manifest that job j wrote and that still exist.
LeftBy(j) == {p \in IntermediatePaths \cup {ManifestPath} : fs[p] = j}

SegmentFiles(j, i) ==
    {SpeakerCut(TempFolder(j), i), SlideVid(TempFolder(j), i),
     SpeakerResized(TempFolder(j), i), Combined(TempFolder(j), i)}

PageImages(j) == {SlideImage(TempFolder(j), i) : i \in 0..(nPages[j] - 1)}

\* C1: a job whose segment count differs from the page count fails with the
\* validation error, and when it does the working directory was never
\* created, no external operation was invoked and no intermediate file of
\* the job exists.
C1_MismatchFailsFast ==
    \A j \in Jobs :
        (pc[j] \notin {"queued", "validate"} /\ nSegs[j] # nPages[j]) =>
            /\ err[j] = ValueError
            /\ ~dirMade[j]
            /\ calls[j] = <<>>
            /\ LeftBy(j) = {}
            /\ pc[j] = "done" => status[j] = "FAILURE"

C1_Witness ==
    \E j \in Jobs : pc[j] = "done" /\ nSegs[j] # nPages[j] /\ nSegs[j] > 0

Completed(j) == Range(slide_image_paths[j]) \cup Range(cycle_temp_files[j])

\* C3 (as claimed): whenever an error has propagated out of
\* process_video_with_presentation, no intermediate file the run created
\* still exists. Stated for the files the run had finished writing: the
\* files a failing operation wrote in part are left out.
C3_NothingLeftAfterFailure ==
    \A j \in Jobs :
        Raised(j) => \A p \in Completed(j) \cup {ManifestPath} : fs[p] # j

OriginalError(j) ==
    \/ err[j] = ValueError /\ calls[j] = <<>>
    \/ /\ calls[j] # <<>>
       /\ ~calls[j][Len(calls[j])].ok
       /\ err[j].type = "OperationError"
       /\ err[j].op = calls[j][Len(calls[j])].op
       /\ err[j].op \in Stages => err[j].seg = calls[j][Len(calls[j])].seg

Moved(j) == pc'[j] # pc[j] \/ idx'[j] # idx[j]

\* C6 (as claimed): an intermediate file is overwritten or deleted only by
\* the job that wrote it.
C6_IntermediatesOwnedByCreator ==
    [][\A p \in IntermediatePaths :
           (Exists(fs, p) /\ fs'[p] # fs[p]) =>
               \E j \in Jobs : Moved(j) /\ fs[p] = j]_vars

\* C7 (as claimed): from the time a job has written the manifest until its
\* concatenation has run, inputs.txt is the file the job wrote, lists the
\* job's fragments in segment order, and those fragments are the job's own.
C7_ManifestIsOwn ==
    \A j \in Jobs :
        pc[j] = "concat_run" =>
            /\ fs[ManifestPath] = j
            /\ manifest = video_fragments[j]
            /\ \A p \in Range(manifest) : fs[p] = j

\* C8: the manifest a job wrote has one entry per segment, the composed clip
\* of segment i at position i.
C8_ManifestInSegmentOrder ==
    \A j \in Jobs :
        fs[ManifestPath] = j =>
            /\ Len(manifest) = nSegs[j]
            /\ \A i \in 0..(nSegs[j] - 1) :
                   manifest[i + 1] = Combined(TempFolder(j), i)

C8_Witness ==
    \E j \in Jobs : pc[j] = "concat_run" /\ fs[ManifestPath] = j /\ nSegs[j] > 1

\* The k-th operation of a job with n segments: rasterization, then the four
\* stages of segment 0, of segment 1, ..., then the concatenation.
StageOrder == <<"cut_video", "slide_to_video", "resize_video", "combine_videos">>

ExpectedCall(n, k) ==
    IF k = 1 THEN [op |-> "rasterize", seg |-> 0]
    ELSE IF k = 4 * n + 2 THEN [op |-> "concat_videos", seg |-> 0]
    ELSE [op |-> StageOrder[((k - 2) % 4) + 1], seg |-> (k - 2) \div 4]

\* C9: the operations of a job are invoked in the fixed order, each after the
\* one before it has succeeded.
C9_FixedOperationOrder ==
    \A j \in Jobs :
        /\ Len(calls[j]) <= 4 * nSegs[j] + 2
        /\ \A k \in 1..Len(calls[j]) :
               /\ calls[j][k].op = ExpectedCall(nSegs[j], k).op
               /\ calls[j][k].seg = ExpectedCall(nSegs[j], k).seg
               /\ k > 1 => calls[j][k - 1].ok

C9_Witness ==
    \E j \in Jobs : nSegs[j] > 1 /\ Len(calls[j]) = 4 * nSegs[j] + 2

\* C10: nothing is invoked after a failed operation, and no operation is
\* invoked twice for the same segment and stage.
C10_FailureIsFinalNoRetry ==
    \A j \in Jobs :
        \A a, b \in 1..Len(calls[j]) :
            a < b =>
                /\ calls[j][a].ok
                /\ ~(calls[j][a].op = calls[j][b].op
                        /\ calls[j][a].seg = calls[j][b].seg)

C10_Witness ==
    \E j \in Jobs :
        /\ pc[j] = "done"
        /\ Len(calls[j]) > 2
        /\ Len(calls[j]) < 4 * nSegs[j] + 2
        /\ ~calls[j][Len(calls[j])].ok

\* Every operation of job j was invoked and returned.
AllSucceeded(j) ==
    /\ nSegs[j] = nPages[j]
    /\ Len(calls[j]) = 4 * nSegs[j] + 2
    /\ \A k \in 1..Len(calls[j]) : calls[j][k].ok

\* C11: on a filesystem whose removals may fail, a job whose operations all
\* succeeded still ends in SUCCESS, and a job that failed still ends in
\* FAILURE carrying the exception of the operation that failed: a failed
\* removal changes neither.
C11_RemovalFailureKeepsOutcome ==
    \A j \in Jobs :
        /\ Returned(j) => (err[j] = NoError <=> AllSucceeded(j))
        /\ Raised(j) => OriginalError(j)
        /\ pc[j] = "done" => (status[j] = "SUCCESS" <=> AllSucceeded(j))
        /\ pc[j] = "done" => (status[j] = "FAILURE" <=> ~AllSucceeded(j))

\* A job ended in SUCCESS although an intermediate file could not be removed.
C11_Witness ==
    \E j \in Jobs :
        /\ pc[j] = "done"
        /\ status[j] = "SUCCESS"
        /\ nSegs[j] > 0
        /\ \E p \in Range(cycle_temp_files[j]) : fs[p] = j

\* The paths the loop of the finally block must never be given: the final
\* artifact and the three uploaded sources, of any job.
Protected == UNION {{OutputPath(k)} \cup SourcePaths(k) : k \in Jobs}

\* The step is one of the finally block of process_video_with_presentation.
InProcessCleanup(j) == pc[j] \in {"finally", "remove"}

\* C12: cycle_temp_files never holds the final artifact path or a source
\* path, and no step of the finally block of
\* process_video_with_presentation changes the file at any of those paths.
C12_CleanupSparesFinalAndSources ==
    [][\A j \in Jobs : \A p \in Protected :
           /\ p \notin Range(cycle_temp_files[j])
           /\ p \notin Range(cycle_temp_files'[j])
           /\ InProcessCleanup(j) => fs'[p] = fs[p]]_vars

\* The finally block has removed the files of a successful run: the final
\* artifact and the sources are still in place.
C12_Witness ==
    \E j \in Jobs :
        /\ pc[j] = "task_return"
        /\ nSegs[j] > 0
        /\ \A p \in Range(cycle_temp_files[j]) : ~Exists(fs, p)
        /\ \A p \in {OutputPath(j)} \cup SourcePaths(j) : fs[p] = j

\* C13: within one job the paths of the artifacts are pairwise distinct over
\* every (segment index, kind), and none is the manifest or the final
\* artifact, for segment indices of one, two and three digits.
C13_ArtifactPathsDistinct ==
    \A r \in planned :
        /\ \A x, y \in Kinds :
               <<r.i, x>> # <<r.k, y>> => r.first[x] # r.second[y]
        /\ \A x \in Kinds :
               r.first[x] \notin {ManifestPath, OutputPath(r.job)}
        /\ ManifestPath # OutputPath(r.job)

\* The paths of segment 0 and of segment 100 have been derived.
C13_Witness == \E r \in planned : r.i = 0 /\ r.k = 100

\* What the timeline says of segment i.
Segment(j, i) == slides_data_list[j][i + 1]

\* C15: the trim of segment i is given the narration video and exactly the
\* start and end of segment i; the slide clip is rendered from the image of
\* page i + 1, the i-th image of the rasterization, for end - start; the
\* resize reads the trimmed clip; the composition is given the slide clip
\* first (left) and the resized narration second (right).
C15_StageArguments ==
    \A j \in Jobs : \A k \in 1..Len(calls[j]) :
        LET c == calls[j][k]
            i == c.seg
            folder == TempFolder(j)
        IN  /\ c.op \in Stages => i < nSegs[j]
            /\ c.op = "cut_video" =>
                   /\ c.args.ins = <<VideoPath(j)>>
                   /\ c.args.t = <<Segment(j, i).start, Segment(j, i).end>>
                   /\ c.args.out = SpeakerCut(folder, i)
            /\ c.op = "slide_to_video" =>
                   /\ c.args.ins = <<SlideImage(folder, i)>>
                   /\ c.args.ins = <<slide_image_paths[j][i + 1]>>
                   /\ c.args.t = <<Segment(j, i).end - Segment(j, i).start>>
                   /\ c.args.out = SlideVid(folder, i)
            /\ c.op = "resize_video" =>
                   /\ c.args.ins = <<SpeakerCut(folder, i)>>
                   /\ c.args.out = SpeakerResized(folder, i)
            /\ c.op = "combine_videos" =>
                   /\ c.args.ins = <<SlideVid(folder, i),
                                     SpeakerResized(folder, i)>>
                   /\ c.args.out = Combined(folder, i)

\* Both segments of a timeline whose segments differ have been composed.
C15_Witness ==
    \E j \in Jobs :
        /\ nSegs[j] = 2
        /\ Segment(j, 0) # Segment(j, 1)
        /\ \E k \in 1..Len(calls[j]) :
               /\ calls[j][k].op = "combine_videos"
               /\ calls[j][k].seg = 1
               /\ calls[j][k].ok

\* C16 (as claimed): every segment whose trim or slide rendering is invoked
\* has end > start, so no operation is given a zero or negative duration.
C16_PositiveDuration ==
    \A j \in Jobs : \A k \in 1..Len(calls[j]) :
        LET c == calls[j][k] IN
            /\ c.op = "cut_video" => c.args.t[2] > c.args.t[1]
            /\ c.op = "slide_to_video" => c.args.t[1] > 0

\* C17: a download is answered with the file exactly when the task state is
\* SUCCESS and the file exists, and with "not found" otherwise; an answered
\* download leaves the file in place, so every download of a succeeded job
\* is answered with the file.
C17_DownloadOnlyOnSuccess ==
    \A j \in Jobs :
        /\ \A k \in 1..Len(responses[j]) :
               LET r == responses[j][k] IN
                   /\ r.answer \in {"file", "not found"}
                   /\ r.answer = "file" <=> (r.status = "SUCCESS" /\ r.exists)
                   /\ r.status = "SUCCESS" => r.answer = "file"
        /\ (\E k \in 1..Len(responses[j]) : responses[j][k].answer = "file")
               => fs[OutputPath(j)] = j

\* The last two downloads of a job were both answered with the file.
C17_Witness ==
    \E j \in Jobs :
        /\ Len(responses[j]) = MaxDownloads
        /\ responses[j][MaxDownloads - 1].answer = "file"
        /\ responses[j][MaxDownloads].answer = "file"

\* The output paths of the stages of job j that have returned, in the order
\* in which they ran.
StageReturned(c) == c.op \in Stages /\ c.ok

OutputsOf(cs) ==
    LET done == SelectSeq(cs, StageReturned) IN
        [k \in 1..Len(done) |-> done[k].args.out]

\* convert_pdf_to_images has returned: the list of files to clean exists.
ListCreated(j) == calls[j] # <<>> /\ calls[j][1].ok

\* The finally block has looked for inputs.txt.
PastFinally(j) ==
    pc[j] \in {"remove", "task_return", "task_except", "task_finally", "done"}

\* The list is the page images followed by the outputs of the stages that
\* have returned, and after the finally block possibly inputs.txt.
TrackedExactly(j) ==
    LET made == slide_image_paths[j] \o OutputsOf(calls[j]) IN
        IF ~ListCreated(j) THEN cycle_temp_files[j] = <<>>
        ELSE \/ cycle_temp_files[j] = made
             \/ PastFinally(j) /\ cycle_temp_files[j] = Append(made, ManifestPath)

IsPrefix(a, b) == Len(a) <= Len(b) /\ SubSeq(b, 1, Len(a)) = a

\* C18: from its creation on, cycle_temp_files is exactly the page images
\* followed by the output paths of the stages that have already returned, in
\* execution order (and inputs.txt once the finally block has found it); a
\* path enters it only after its stage returned, and no step removes a path
\* from it.
C18_TrackedAreCompletedOutputs ==
    [][\A j \in Jobs :
           /\ TrackedExactly(j)'
           /\ IsPrefix(cycle_temp_files[j], cycle_temp_files'[j])]_vars

\* A stage of the second segment failed with the list holding the pages and
\* the outputs that came before it.
C18_Witness ==
    \E j \in Jobs :
        /\ pc[j] = "finally"
        /\ err[j].op = "resize_video"
        /\ err[j].seg = 1
        /\ Len(cycle_temp_files[j]) = nPages[j] + 6

====
